---------------------------- MODULE Spec2Model ----------------------------
(***************************************************************************)
(* Greedy best-first search engine of castle_searcher (src/main.rs).       *)
(*                                                                         *)
(* The engine is the trait Searchable: pathfind drives a frontier (open,   *)
(* a BinaryHeap of HeapEntry), a visited set (seen, a HashSet) and, in the *)
(* implementor CastleSearcher, a best-ever tracker (best_of_all_time, a    *)
(* second BinaryHeap) that fitness_estimate updates.  The Problem Model    *)
(* (start, neighbors, fitness_estimate's value, is_goal) is the trait's    *)
(* parameter: here it is a finite graph over opaque states, a goal set,    *)
(* and a score drawn at every fitness_estimate call.                       *)
(***************************************************************************)
EXTENDS Integers, Sequences, FiniteSets

(***************************************************************************)
(* Bounds of the model.                                                    *)
(***************************************************************************)
\* The states of the Problem Model (type Solution: opaque, Eq + Hash).
States == {"A", "B", "C"}

\* The finite fitness values fitness_estimate may return.
FitVals == {1, 3, 5}

\* The longest list neighbors() returns, and the most edges of a graph.
MaxNbrs == 2
MaxEdges == 3

\* Castle, scaled down: the number of cut points (9 in [u8; 9]) and the
\* number of troops to share out (100).
NCuts == 4
Total == 6

(***************************************************************************)
(* f64: the finite values are integers; the two non-finite values the      *)
(* claims need are encoded apart.  Every comparison goes through Le / Gt,  *)
(* which are false whenever an operand is NaN (IEEE 754 partial order, as  *)
(* f64::partial_cmp returns None).                                         *)
(***************************************************************************)
PosInf == 1000
NaN == -1000

NonFinite == {PosInf, NaN}
IsFinite(f) == f \notin NonFinite

\* HeapEntry::partial_cmp: None exactly when an operand is NaN.
Comparable(a, b) == a # NaN /\ b # NaN
Le(a, b) == Comparable(a, b) /\ a <= b
Gt(a, b) == Comparable(a, b) /\ a > b

(***************************************************************************)
(* Sequence helpers.                                                       *)
(***************************************************************************)
Range(s) == {s[i] : i \in 1..Len(s)}

RECURSIVE SumLen(_, _)
SumLen(f, S) ==
    IF S = {} THEN 0
    ELSE LET x == CHOOSE y \in S : TRUE IN Len(f[x]) + SumLen(f, S \ {x})

SeqsUpTo(S, n) == UNION {[1..k -> S] : k \in 0..n}

\* The values neighbors() may return for one state, and the graphs.
NbrLists == SeqsUpTo(States, MaxNbrs)
Graphs == {g \in [States -> NbrLists] : SumLen(g, States) <= MaxEdges}

\* The states reachable from s in graph g (reflexive, transitive).
RECURSIVE ReachFrom(_, _)
ReachFrom(g, R) ==
    LET R2 == R \cup UNION {Range(g[x]) : x \in R}
    IN IF R2 = R THEN R ELSE ReachFrom(g, R2)

(***************************************************************************)
(* BinaryHeap<HeapEntry<T>>.  An entry is [value, item]; HeapEntry's Ord,  *)
(* PartialOrd and PartialEq look at value alone.  The heap is its data     *)
(* vector, the root at index 1 and the children of index i at 2i and       *)
(* 2i + 1.  push and pop move entries as the standard library does, by the *)
(* operator <= of HeapEntry, which is false whenever an operand is NaN: a  *)
(* NaN that went through the heap can leave the vector out of heap order,  *)
(* and which of several greatest entries is popped follows from the pushes *)
(* and pops made so far.                                                   *)
(***************************************************************************)
HeapEntry(v, s) == [value |-> v, item |-> s]

\* The hole of sift_up / sift_down_to_bottom moved from index i to index j.
Swap(d, i, j) == [d EXCEPT ![i] = d[j], ![j] = d[i]]

\* Mutant of SiftUp: the comparison turned round (a min-heap on the way up).
RECURSIVE SiftUp_Reversed(_, _, _)
SiftUp_Reversed(d, start, pos) ==
    IF pos > start /\ ~Le(d[pos \div 2].value, d[pos].value)
    THEN SiftUp_Reversed(Swap(d, pos, pos \div 2), start, pos \div 2)
    ELSE d

\* BinaryHeap::sift_up(start, pos): the entry at pos rises while it is not
\* <= its parent.
RECURSIVE SiftUp(_, _, _)
SiftUp(d, start, pos) ==
    IF pos > start /\ ~Le(d[pos].value, d[pos \div 2].value)
    THEN SiftUp(Swap(d, pos, pos \div 2), start, pos \div 2)
    ELSE d

\* BinaryHeap::sift_down_to_bottom(start), the hole now at pos: the entry
\* goes down to a leaf along the greater children (the right one when
\* left <= right), then sift_up(start, pos) takes it back up.
RECURSIVE SiftDownToBottom(_, _, _)
SiftDownToBottom(d, start, pos) ==
    LET end == Len(d)
        child == 2 * pos
    IN IF child <= end - 1
       THEN LET c == IF Le(d[child].value, d[child + 1].value)
                     THEN child + 1 ELSE child
            IN SiftDownToBottom(Swap(d, pos, c), start, c)
       ELSE IF child = end
            THEN SiftUp(Swap(d, pos, child), start, child)
            ELSE SiftUp(d, start, pos)

\* Mutant of HeapPush: the new entry stays at the end of the vector.
HeapPush_NoSift(h, e) == Append(h, e)

\* BinaryHeap::push: the entry is appended and sifted up.
HeapPush(h, e) == SiftUp(Append(h, e), 1, Len(h) + 1)

\* Mutant of HeapPop: the last entry of the vector is what pop yields.
HeapPop_Last(h) ==
    [entry |-> h[Len(h)], heap |-> SubSeq(h, 1, Len(h) - 1)]

\* BinaryHeap::pop on a heap that is not empty: the last entry is taken off
\* the vector; if entries are left it is swapped with the root, which is
\* the entry popped, and sifted down.
HeapPop(h) ==
    LET item == h[Len(h)]
        rest == SubSeq(h, 1, Len(h) - 1)
    IN IF rest = <<>>
       THEN [entry |-> item, heap |-> rest]
       ELSE [entry |-> rest[1],
             heap |-> SiftDownToBottom([rest EXCEPT ![1] = item], 1, 1)]

\* Option<&HeapEntry>::None, and the value of current outside the loop body.
None == [value |-> 0, item |-> "none"]

\* BinaryHeap::peek: the root (None on an empty heap).
Peek(h) == IF h = <<>> THEN None ELSE h[1]

(***************************************************************************)
(* The state.                                                              *)
(***************************************************************************)
VARIABLES
    nbrs,              \* Problem Model: neighbors(), a list per state
    goals,             \* Problem Model: the states is_goal accepts
    castle,            \* Castle.inner: the cut points of one Castle
    pc,                \* position in pathfind
    open,              \* the frontier (BinaryHeap)
    seen,              \* the visited set (HashSet)
    best_of_all_time,  \* CastleSearcher's tracker (BinaryHeap)
    current,           \* the popped entry: current, current_fitness
    todo,              \* what the for loop over neighbors has left
    result,            \* what pathfind returned
    scored,            \* history: the fitness_estimate calls, as entries
    reported,          \* history: the output calls, as entries
    pushed,            \* history: the open.push calls, [item, by]: by is
                       \*   the state being expanded ("none" at line 195)
    expanded           \* history: the states neighbors() was called on

vars == <<nbrs, goals, castle, pc, open, seen, best_of_all_time, current, todo,
          result, scored, reported, pushed, expanded>>

model == <<nbrs, goals, castle>>
history == <<scored, reported, pushed, expanded>>

(***************************************************************************)
(* CastleSearcher::new and the Problem Model.                              *)
(***************************************************************************)
\* Castle::default() (derive(Default), line 90): every cut point 0.
DefaultCastle == [i \in 1..NCuts |-> 0]

Init ==
    /\ nbrs \in Graphs
    /\ goals \in SUBSET States
    /\ castle = DefaultCastle
    /\ pc = "start"
    /\ open = <<>>
    /\ seen = {}
    /\ best_of_all_time = <<>>
    /\ current = None
    /\ todo = <<>>
    /\ result = "none"
    /\ scored = <<>>
    /\ reported = <<>>
    /\ pushed = <<>>
    /\ expanded = <<>>

(***************************************************************************)
(* The trait's methods.                                                    *)
(***************************************************************************)
\* Mutant of is_goal: the goal test is never true.
is_goal_Never(g, solution, fitness) == FALSE

\* is_goal(&current, current_fitness), a pure predicate of the model.
is_goal(g, solution, fitness) == solution \in g

\* Mutant of neighbors: the last neighbor is left out.
neighbors_SkipLast(g, solution) ==
    SubSeq(g[solution], 1, Len(g[solution]) - 1)

\* neighbors(&current).
neighbors(g, solution) == g[solution]

\* Mutants of fitness_estimate: the tracker keeps the latest score only,
\* and the comparison with the best so far is turned round.
fitness_estimate_KeepLast(h, boat, fitness, solution) ==
    <<HeapEntry(fitness, solution)>>

fitness_estimate_Flipped(h, boat, fitness, solution) ==
    IF boat # None
    THEN IF Gt(boat.value, fitness)
         THEN HeapPush(h, HeapEntry(fitness, solution))
         ELSE h
    ELSE HeapPush(h, HeapEntry(fitness, solution))

\* Mutants of fitness_estimate: every score is recorded, and a score equal
\* to the best so far is recorded too.
fitness_estimate_Always(h, boat, fitness, solution) ==
    HeapPush(h, HeapEntry(fitness, solution))

fitness_estimate_Ge(h, boat, fitness, solution) ==
    IF boat # None
    THEN IF ~Gt(boat.value, fitness)
         THEN HeapPush(h, HeapEntry(fitness, solution))
         ELSE h
    ELSE HeapPush(h, HeapEntry(fitness, solution))

\* CastleSearcher::fitness_estimate, lines 33-39: the tracker after scoring
\* solution with fitness, boat being what peek returned.
fitness_estimate(h, boat, fitness, solution) ==
    IF boat # None
    THEN IF Gt(fitness, boat.value)
         THEN HeapPush(h, HeapEntry(fitness, solution))
         ELSE h
    ELSE HeapPush(h, HeapEntry(fitness, solution))

\* Mutants of the seen check: no check at all, and a check against the
\* frontier's entries instead of the visited set.
Contains_Never(sn, neighbor) == FALSE

Contains_OpenOnly(sn, neighbor) ==
    \E i \in 1..Len(open) : open[i].item = neighbor

\* seen.contains(&neighbor)
Contains(sn, neighbor) == neighbor \in sn

\* heap_entry(solution) with fitness_estimate returning a value of D,
\* followed by open.push: lines 182-187 with 195 or 211.
PushScored(solution, D) ==
    \E fitness \in D :
        /\ best_of_all_time' =
               fitness_estimate(best_of_all_time, Peek(best_of_all_time),
                                fitness, solution)
        /\ open' = HeapPush(open, HeapEntry(fitness, solution))
        /\ scored' = Append(scored, HeapEntry(fitness, solution))
        /\ pushed' = Append(pushed, [item |-> solution, by |-> current.item])

(***************************************************************************)
(* pathfind, one action per step.                                          *)
(***************************************************************************)
\* Mutant of Start: seen.insert(start) of line 194 is left out.
Start_NoInsert(D) ==
    /\ pc = "start"
    /\ \E start \in States :
        /\ seen' = {}
        /\ PushScored(start, D)
    /\ pc' = "loop"
    /\ UNCHANGED <<model, current, todo, result, reported, expanded>>

\* Lines 190-195: fresh open and seen, start(), seen.insert, open.push.
Start(D) ==
    /\ pc = "start"
    /\ \E start \in States :
        /\ seen' = {start}
        /\ PushScored(start, D)
    /\ pc' = "loop"
    /\ UNCHANGED <<model, current, todo, result, reported, expanded>>

\* Mutant of Pop: the popped state is scored again, and the new value is
\* the one the loop body goes on with.
Pop_Rescore ==
    /\ pc = "loop"
    /\ open # <<>>
    /\ \E fitness \in FitVals :
        /\ current' = HeapEntry(fitness, HeapPop(open).entry.item)
        /\ open' = HeapPop(open).heap
        /\ scored' = Append(scored,
                            HeapEntry(fitness, HeapPop(open).entry.item))
    /\ pc' = "output"
    /\ UNCHANGED <<model, seen, best_of_all_time, todo, result, reported,
                   pushed, expanded>>

\* Line 198-199: open.pop() returned Some.
Pop ==
    /\ pc = "loop"
    /\ open # <<>>
    /\ current' = HeapPop(open).entry
    /\ open' = HeapPop(open).heap
    /\ pc' = "output"
    /\ UNCHANGED <<model, seen, best_of_all_time, todo, result, history>>

\* Line 201: self.output(&current, current_fitness).
Output ==
    /\ pc = "output"
    /\ reported' = Append(reported, current)
    /\ pc' = "is_goal"
    /\ UNCHANGED <<model, open, seen, best_of_all_time, current, todo,
                   result, scored, pushed, expanded>>

\* Lines 203-205: is_goal is true, pathfind returns current.
Return ==
    /\ pc = "is_goal"
    /\ is_goal(goals, current.item, current.value)
    /\ result' = current.item
    /\ pc' = "returned"
    /\ UNCHANGED <<model, open, seen, best_of_all_time, current, todo,
                   history>>

\* Mutant of Expand: the neighbors are enumerated whatever is_goal says.
Expand_Unconditional ==
    /\ pc = "is_goal"
    /\ todo' = neighbors(nbrs, current.item)
    /\ expanded' = Append(expanded, current.item)
    /\ pc' = IF todo' = <<>> THEN "loop" ELSE "for"
    /\ UNCHANGED <<model, open, seen, best_of_all_time, current, result,
                   scored, reported, pushed>>

\* Lines 203 and 207: is_goal is false, neighbors(&current) is called.
Expand ==
    /\ pc = "is_goal"
    /\ ~is_goal(goals, current.item, current.value)
    /\ todo' = neighbors(nbrs, current.item)
    /\ expanded' = Append(expanded, current.item)
    /\ pc' = IF todo' = <<>> THEN "loop" ELSE "for"
    /\ UNCHANGED <<model, open, seen, best_of_all_time, current, result,
                   scored, reported, pushed>>

\* Lines 207-212: one iteration of the for loop.
Visit(D) ==
    /\ pc = "for"
    /\ LET neighbor == Head(todo) IN
        IF Contains(seen, neighbor)
        THEN UNCHANGED <<open, seen, best_of_all_time, scored, pushed>>
        ELSE /\ seen' = seen \cup {neighbor}
             /\ PushScored(neighbor, D)
    /\ todo' = Tail(todo)
    /\ pc' = IF todo' = <<>> THEN "loop" ELSE "for"
    /\ UNCHANGED <<model, current, result, reported, expanded>>

\* Lines 198 and 215: open.pop() returned None, unreachable!() panics.
Exhaust ==
    /\ pc = "loop"
    /\ open = <<>>
    /\ pc' = "panicked"
    /\ UNCHANGED <<model, open, seen, best_of_all_time, current, todo,
                   result, history>>

\* Mutant of Call: the second call runs on a new engine, CastleSearcher::new().
Call_NewEngine ==
    /\ pc = "returned"
    /\ pc' = "start"
    /\ open' = <<>>
    /\ seen' = {}
    /\ best_of_all_time' = <<>>
    /\ current' = None
    /\ todo' = <<>>
    /\ result' = "none"
    /\ scored' = <<>>
    /\ reported' = <<>>
    /\ pushed' = <<>>
    /\ expanded' = <<>>
    /\ UNCHANGED model

\* pathfind(&mut self) called again on the engine after it returned: lines
\* 189-191 make a new open and a new seen, self keeps best_of_all_time.  The
\* history starts anew with the call.
Call ==
    /\ pc = "returned"
    /\ pc' = "start"
    /\ open' = <<>>
    /\ seen' = {}
    /\ current' = None
    /\ todo' = <<>>
    /\ result' = "none"
    /\ scored' = <<>>
    /\ reported' = <<>>
    /\ pushed' = <<>>
    /\ expanded' = <<>>
    /\ UNCHANGED <<model, best_of_all_time>>

Next ==
    \/ Start(FitVals)
    \/ Pop
    \/ Output
    \/ Return
    \/ Expand
    \/ Visit(FitVals)
    \/ Exhaust

Spec == Init /\ [][Next]_vars

\* The code runs to completion: some step is taken whenever one is enabled.
FairSpec == Spec /\ WF_vars(Next)

\* The same engine under a Problem Model that breaks the contract of
\* fitness_estimate: the f64 it returns may be infinite or NaN.
F64Vals == FitVals \cup NonFinite

NextNF ==
    \/ Start(F64Vals)
    \/ Pop
    \/ Output
    \/ Return
    \/ Expand
    \/ Visit(F64Vals)
    \/ Exhaust

SpecNF == Init /\ [][NextNF]_vars

\* The engine reused: pathfind is called again each time it has returned.
NextReuse ==
    \/ Next
    \/ Call

\* Reuse multiplies every run by the trackers earlier runs can leave behind;
\* its graphs have one edge less than those of the single run.
InitReuse ==
    /\ Init
    /\ SumLen(nbrs, States) <= MaxEdges - 1

SpecReuse == InitReuse /\ [][NextReuse]_vars

(***************************************************************************)
(* Reading the history.                                                    *)
(***************************************************************************)
Items(s) == [i \in 1..Len(s) |-> s[i].item]
NoDup(s) == \A i, j \in 1..Len(s) : s[i] = s[j] => i = j

\* The state start() returned in this run.
StartOf == pushed[1].item

\* The state whose expansion enqueued s ("none" for the start state).
PushedBy(s) == (CHOOSE e \in Range(pushed) : e.item = s).by

\* Number of pops so far: every entry pushed is in open or was popped.
Pops == Len(pushed) - Len(open)

(***************************************************************************)
(* C1 -- Dedup invariant of pathfind: no state is pushed onto open more    *)
(* than once, the size of seen equals the number of pushes made so far     *)
(* (the start state's included), and seen never loses an element.          *)
(***************************************************************************)
C1_Dedup ==
    /\ [](/\ NoDup(Items(pushed))
          /\ Cardinality(seen) = Len(pushed)
          /\ seen = Range(Items(pushed)))
    /\ [][seen \subseteq seen']_vars

\* A run that met the same neighbor twice in one list and has ended.
C1_Witness ==
    /\ pc = "panicked"
    /\ nbrs["A"] = <<"B", "B">>
    /\ nbrs["B"] = <<"C">>
    /\ Len(pushed) = 3

(***************************************************************************)
(* C2 -- Ordering, as claimed: across consecutive output calls the fitness *)
(* recorded at enqueue time never increases.                               *)
(***************************************************************************)
C2_NonIncreasingReports ==
    \A i \in 1..(Len(reported) - 1) :
        Le(reported[i + 1].value, reported[i].value)

(***************************************************************************)
(* C2 amended -- across consecutive output calls the fitness never         *)
(* increases, unless the later state was enqueued by the expansion of the  *)
(* earlier one (it was not yet in open when the earlier one was popped).   *)
(***************************************************************************)
C2_NonIncreasingAmongKnown ==
    \A i \in 1..(Len(reported) - 1) :
        \/ Le(reported[i + 1].value, reported[i].value)
        \/ PushedBy(reported[i + 1].item) = reported[i].item

\* Three reports: a rise to a fresh neighbor, then a fall to an older entry.
C2_Witness ==
    /\ Len(reported) = 3
    /\ reported[1].value < reported[2].value
    /\ reported[3].value < reported[2].value
    /\ PushedBy(reported[3].item) = reported[1].item

(***************************************************************************)
(* C3 -- Termination on finite graphs: with is_goal always false the run   *)
(* ends by frontier exhaustion, and then fitness_estimate has been called  *)
(* exactly once for each state reachable from start() and for no other.    *)
(***************************************************************************)
C3_Termination ==
    /\ (goals = {}) ~> (pc = "panicked")
    /\ [](pc = "panicked" =>
            /\ Len(scored) = Cardinality(ReachFrom(nbrs, {StartOf}))
            /\ Range(Items(scored)) = ReachFrom(nbrs, {StartOf})
            /\ open = <<>>)

\* Exhaustion of a graph with a cycle through all three states.
C3_Witness ==
    /\ pc = "panicked"
    /\ goals = {}
    /\ Len(scored) = 3
    /\ StartOf \in Range(nbrs[scored[3].item])

(***************************************************************************)
(* C4 -- Frontier exhaustion, as claimed: a run whose frontier empties     *)
(* before a goal was popped ends in a reported failure outcome and the     *)
(* process does not crash.  pathfind has no such outcome: the only way out *)
(* of the loop is unreachable!(), so the claim is that it is never hit.    *)
(***************************************************************************)
C4_NoCrashOnExhaustion == pc # "panicked"

(***************************************************************************)
(* The example of the spec: A -> {B, C}, B -> {}, C -> {}, start = A,      *)
(* score(A) = 1, score(B) = 5, score(C) = 3.  The neighbors of A come in   *)
(* either order.  A run is a run of the example when start() returned A    *)
(* and every fitness_estimate call so far returned the example's score.    *)
(***************************************************************************)
ToyScore == [s \in States |-> CASE s = "A" -> 1 [] s = "B" -> 5 [] OTHER -> 3]

ToyRun ==
    /\ nbrs["A"] \in {<<"B", "C">>, <<"C", "B">>}
    /\ nbrs["B"] = <<>>
    /\ nbrs["C"] = <<>>
    /\ scored # <<>>
    /\ StartOf = "A"
    /\ \A i \in 1..Len(scored) : scored[i].value = ToyScore[scored[i].item]

(***************************************************************************)
(* C5 -- Example with goal B, as claimed: the engine returns B after       *)
(* reporting A then B, and C is never scored.                              *)
(***************************************************************************)
C5_ToyGoalAsClaimed ==
    (ToyRun /\ goals = {"B"}) =>
        /\ "C" \notin Range(Items(scored))
        /\ pc = "returned" =>
              /\ result = "B"
              /\ Items(reported) = <<"A", "B">>

(***************************************************************************)
(* C5 amended -- the engine returns B after reporting A then B; C is       *)
(* scored once, when A is expanded, but is never reported nor expanded.    *)
(***************************************************************************)
C5_ToyGoal ==
    (ToyRun /\ goals = {"B"}) =>
        /\ "C" \notin Range(Items(reported))
        /\ "C" \notin Range(expanded)
        /\ pc # "panicked"
        /\ pc = "returned" =>
              /\ result = "B"
              /\ reported = <<HeapEntry(1, "A"), HeapEntry(5, "B")>>
              /\ Range(scored) =
                    {HeapEntry(1, "A"), HeapEntry(5, "B"), HeapEntry(3, "C")}
              /\ Len(scored) = 3
              /\ expanded = <<"A">>

\* The example's run has returned.
C5_Witness == ToyRun /\ goals = {"B"} /\ pc = "returned"

(***************************************************************************)
(* C6 -- Non-finite scores, as claimed: a state whose fitness_estimate is  *)
(* NaN or infinite gets no entry in the frontier and none in the tracker.  *)
(***************************************************************************)
C6_NonFiniteNotInserted ==
    /\ \A i \in 1..Len(open) : IsFinite(open[i].value)
    /\ \A i \in 1..Len(best_of_all_time) : IsFinite(best_of_all_time[i].value)

(***************************************************************************)
(* C7 -- Goal short-circuit: when is_goal holds of the first popped state, *)
(* pathfind returns that state at once: one output call, no neighbors      *)
(* call, and no fitness_estimate call but the start state's.               *)
(***************************************************************************)
C7_GoalShortCircuit ==
    (reported # <<>> /\ reported[1].item \in goals) =>
        /\ pc \in {"is_goal", "returned"}
        /\ Len(reported) = 1
        /\ expanded = <<>>
        /\ Len(scored) = 1
        /\ scored[1] = reported[1]
        /\ reported[1].item = StartOf
        /\ pc = "returned" => result = StartOf

\* A goal start state that has neighbors, returned.
C7_Witness ==
    /\ pc = "returned"
    /\ Len(reported) = 1
    /\ nbrs[result] # <<>>
    /\ result \notin Range(nbrs[result])

(***************************************************************************)
(* C8 -- Best-Ever monotonicity: the fitness best_of_all_time.peek()       *)
(* returns never decreases from one state of the tracker to the next, and  *)
(* a tracker that has an entry never becomes empty.                        *)
(***************************************************************************)
C8_PeekMonotone ==
    [][LET old == Peek(best_of_all_time)
           new == Peek(best_of_all_time')
       IN old # None => (new # None /\ Le(old.value, new.value))]_vars

\* A lower fitness was scored after the tracker had grown.
C8_Witness ==
    /\ Len(scored) = 3
    /\ scored[1].value < scored[2].value
    /\ scored[3].value < scored[2].value
    /\ Len(best_of_all_time) = 2

(***************************************************************************)
(* C9 -- peek_best: best_of_all_time.peek() is None exactly when nothing   *)
(* has been scored, and otherwise its fitness is the maximum of all the    *)
(* fitness values scored so far.                                           *)
(***************************************************************************)
C9_PeekIsMax ==
    LET boat == Peek(best_of_all_time) IN
        /\ boat = None <=> scored = <<>>
        /\ boat # None =>
              /\ \A i \in 1..Len(scored) : Le(scored[i].value, boat.value)
              /\ boat \in Range(scored)

\* Three scorings, the greatest in the middle.
C9_Witness ==
    /\ Len(scored) = 3
    /\ scored[2].value > scored[1].value
    /\ scored[2].value > scored[3].value
    /\ pc = "panicked"

(***************************************************************************)
(* C10 -- Call counts: every pop is followed by exactly one output call,   *)
(* for the popped state, so no state is reported twice; every newly        *)
(* discovered state gets exactly one fitness_estimate call, also when it   *)
(* occurs several times in one neighbors list, in the lists of several     *)
(* expanded states, or is the start state coming back as a neighbor.       *)
(***************************************************************************)
C10_CallCounts ==
    /\ NoDup(Items(reported))
    /\ NoDup(Items(scored))
    /\ Range(Items(scored)) = seen
    /\ Len(reported) = Pops - (IF pc = "output" THEN 1 ELSE 0)
    /\ pc \in {"is_goal", "for", "returned"} =>
          reported[Len(reported)] = current
    /\ Range(reported) \subseteq Range(scored)

\* B occurs twice in the list of the start state A, A comes back as the
\* neighbor of B, and the run has ended: two pops, two scorings.
C10_Witness ==
    /\ pc = "panicked"
    /\ nbrs["A"] = <<"B", "B">>
    /\ nbrs["B"] = <<"A">>
    /\ StartOf = "A"
    /\ Len(scored) = 2
    /\ Len(reported) = 2

(***************************************************************************)
(* C11 -- Example without goal: with is_goal always false the example's    *)
(* run reports A, then B, then C, and ends in frontier exhaustion after    *)
(* exactly 3 scorings and 3 reports.                                       *)
(***************************************************************************)
C11_ToyNoGoal ==
    (ToyRun /\ goals = {}) =>
        /\ pc # "returned"
        /\ \E k \in 0..3 :
              reported = SubSeq(<<HeapEntry(1, "A"), HeapEntry(5, "B"),
                                  HeapEntry(3, "C")>>, 1, k)
        /\ pc = "panicked" =>
              /\ Len(reported) = 3
              /\ Len(scored) = 3
              /\ Range(Items(scored)) = {"A", "B", "C"}
              /\ expanded = <<"A", "B", "C">>

\* The example's run has ended, the neighbors of A listed as C, B.
C11_Witness ==
    /\ ToyRun
    /\ goals = {}
    /\ pc = "panicked"
    /\ nbrs["A"] = <<"C", "B">>

(***************************************************************************)
(* C12 -- Tracker record rule: a scoring step adds (state, fitness) to     *)
(* best_of_all_time exactly when the tracker is empty or the fitness is    *)
(* strictly greater than the tracker's maximum, and then adds that one     *)
(* entry only; no step removes an entry.  So the tracker's size is the     *)
(* number of scorings that set a new record, at most the number of         *)
(* scorings.                                                               *)
(***************************************************************************)
MaxValue(h) == CHOOSE v \in {h[i].value : i \in 1..Len(h)} :
                   \A i \in 1..Len(h) : h[i].value <= v

\* The scorings that were a new record when they were made.
Records(s) ==
    {i \in 1..Len(s) : \A j \in 1..(i - 1) : s[j].value < s[i].value}

C12_RecordRule ==
    /\ [][/\ Len(best_of_all_time') >= Len(best_of_all_time)
          /\ Range(best_of_all_time) \subseteq Range(best_of_all_time')
          /\ scored' = scored => best_of_all_time' = best_of_all_time
          /\ scored' # scored =>
               LET e == scored'[Len(scored')] IN
                 IF \/ best_of_all_time = <<>>
                    \/ e.value > MaxValue(best_of_all_time)
                 THEN /\ Len(best_of_all_time') = Len(best_of_all_time) + 1
                      /\ Range(best_of_all_time')
                            = Range(best_of_all_time) \cup {e}
                 ELSE best_of_all_time' = best_of_all_time]_vars
    /\ [](/\ Len(best_of_all_time) = Cardinality(Records(scored))
          /\ Len(best_of_all_time) <= Len(scored))

\* A score equal to the tracked maximum and a lower one were not recorded.
C12_Witness ==
    /\ Len(scored) = 3
    /\ scored[1].value = 3
    /\ scored[2].value = 3
    /\ scored[3].value = 1
    /\ Len(best_of_all_time) = 1

(***************************************************************************)
(* C13 -- Tracker scope and frame: only a scoring step (the start state's  *)
(* at line 195, a new neighbor's at line 211) changes best_of_all_time;    *)
(* pop, output, is_goal, neighbors and the skip of a seen neighbor leave   *)
(* it as it is.  When pathfind is called again on the same engine, open    *)
(* and seen start empty and the tracker keeps every entry it had.          *)
(***************************************************************************)
C13_TrackerScope ==
    [][/\ best_of_all_time' # best_of_all_time =>
             /\ pc \in {"start", "for"}
             /\ Len(scored') = Len(scored) + 1
       /\ Len(best_of_all_time') >= Len(best_of_all_time)
       /\ Range(best_of_all_time) \subseteq Range(best_of_all_time')
       /\ (pc = "returned" /\ pc' = "start") =>
             /\ open' = <<>>
             /\ seen' = {}
             /\ best_of_all_time' = best_of_all_time]_vars

\* A later call has scored its start state only, and the tracker holds two
\* entries: what an earlier call recorded is still there.
C13_Witness ==
    /\ pc = "loop"
    /\ Len(scored) = 1
    /\ Len(open) = 1
    /\ seen = {StartOf}
    /\ Len(best_of_all_time) >= 2

(***************************************************************************)
(* C14 -- Greedy pop: the popped entry's fitness is greater than or equal  *)
(* to the fitness of every entry left in open.  Entries compare by value   *)
(* alone: which entry pop yields, and where the others stay, is the same   *)
(* whatever states the entries carry, and so is where push puts the entry  *)
(* of a state not yet seen: a state is popped among tied entries for its   *)
(* place in the heap and not for what it is.                               *)
(***************************************************************************)
\* The permutations of the states, and heap h with its states renamed by p.
StatePerms ==
    {p \in [States -> States] : \A s, t \in States : p[s] = p[t] => s = t}

Renamed(h, p) == [i \in 1..Len(h) |-> HeapEntry(h[i].value, p[h[i].item])]

C14_GreedyPop ==
    /\ pc \in {"output", "is_goal"} =>
          \A i \in 1..Len(open) : Le(open[i].value, current.value)
    /\ (pc = "loop" /\ open # <<>>) =>
          \A p \in StatePerms :
              /\ HeapPop(Renamed(open, p)).heap
                    = Renamed(HeapPop(open).heap, p)
              /\ HeapPop(Renamed(open, p)).entry
                    = HeapEntry(HeapPop(open).entry.value,
                                p[HeapPop(open).entry.item])
              /\ \A e \in {HeapEntry(v, s) : v \in FitVals,
                                             s \in States \ seen} :
                    HeapPush(Renamed(open, p), HeapEntry(e.value, p[e.item]))
                       = Renamed(HeapPush(open, e), p)

\* A tie at the top: the popped entry and the one left have equal fitness
\* and different states; the popped one was the earlier to be pushed.
C14_Witness ==
    /\ pc = "output"
    /\ Len(open) = 1
    /\ open[1].value = current.value
    /\ open[1].item # current.item
    /\ Len(pushed) = 3
    /\ pushed[2].item = current.item

(***************************************************************************)
(* C15 -- Success result and step order: for each popped state output is   *)
(* called first, then is_goal, and neighbors only when is_goal was false.  *)
(* pathfind returns s only when is_goal held at the pop of s; s is then    *)
(* the state reported last, and no neighbors, fitness_estimate or output   *)
(* call follows.                                                           *)
(***************************************************************************)
C15_StepOrder ==
    /\ [](/\ Len(expanded) <= Len(reported)
          /\ \A i \in 1..Len(expanded) :
                /\ expanded[i] = reported[i].item
                /\ expanded[i] \notin goals
          /\ pc = "output" => Len(expanded) = Len(reported)
          /\ pc = "is_goal" =>
                /\ reported # <<>>
                /\ reported[Len(reported)] = current
                /\ Len(expanded) = Len(reported) - 1
          /\ pc = "for" =>
                /\ Len(expanded) = Len(reported)
                /\ expanded[Len(expanded)] = current.item
          /\ result # "none" <=> pc = "returned"
          /\ pc = "returned" =>
                /\ result \in goals
                /\ result = current.item
                /\ reported[Len(reported)] = current
                /\ Len(expanded) = Len(reported) - 1)
    /\ [][pc # "returned"]_vars

\* A goal found at the second pop, with neighbors of its own and an entry
\* still waiting in open.
C15_Witness ==
    /\ pc = "returned"
    /\ Len(reported) = 2
    /\ expanded = <<StartOf>>
    /\ nbrs[result] # <<>>
    /\ open # <<>>

(***************************************************************************)
(* C16 -- Fitness fixed at enqueue: the fitness handed to output and to    *)
(* is_goal for a popped state is the value fitness_estimate returned when  *)
(* the state was enqueued in this call of pathfind.  The state is scored   *)
(* once, and not at its pop or later, although fitness_estimate may return *)
(* another value for the same state whenever it is called.                 *)
(***************************************************************************)
ScoringsOf(s) == {k \in 1..Len(scored) : scored[k].item = s}

C16_FitnessFixedAtEnqueue ==
    /\ [](/\ \A i \in 1..Len(reported) :
                /\ Cardinality(ScoringsOf(reported[i].item)) = 1
                /\ \A k \in ScoringsOf(reported[i].item) :
                      scored[k] = reported[i]
          /\ pc \in {"output", "is_goal", "for", "returned"} =>
                /\ Cardinality(ScoringsOf(current.item)) = 1
                /\ current \in Range(scored))
    /\ [][(pc \in {"loop", "output", "is_goal"}) => (scored' = scored)]_vars

\* The state at the is_goal test was scored differently by an earlier call
\* (the tracker still has that entry): the score is impure, and the value
\* reported is the one of this call's enqueue.
C16_Witness ==
    /\ pc = "is_goal"
    /\ \E i \in 1..Len(best_of_all_time) :
          /\ best_of_all_time[i].item = current.item
          /\ best_of_all_time[i].value # current.value
    /\ reported[Len(reported)] = current

(***************************************************************************)
(* C17 -- Partition invariant: at every loop boundary (the while head and  *)
(* the exit) seen is the disjoint union of the states in open and the      *)
(* states popped and reported.  So at frontier exhaustion the number of    *)
(* output calls, the number of fitness_estimate calls and the size of      *)
(* seen are equal.                                                         *)
(***************************************************************************)
C17_Partition ==
    /\ pc \in {"loop", "panicked"} =>
          /\ seen = Range(Items(open)) \cup Range(Items(reported))
          /\ Range(Items(open)) \cap Range(Items(reported)) = {}
          /\ NoDup(Items(open))
          /\ NoDup(Items(reported))
    /\ pc = "panicked" =>
          /\ Len(reported) = Len(scored)
          /\ Len(scored) = Cardinality(seen)

\* A loop boundary with two states popped and one waiting in open; the
\* start state is a neighbor of the state popped second.
C17_Witness ==
    /\ pc = "loop"
    /\ Len(reported) = 2
    /\ Len(expanded) = 2
    /\ Len(open) = 1
    /\ Cardinality(seen) = 3
    /\ StartOf \in Range(nbrs[reported[2].item])

(***************************************************************************)
(* C18 -- Tracker shape: the fitness values in best_of_all_time are        *)
(* strictly increasing in insertion order (so pairwise distinct), and what *)
(* peek returns is the entry of the earliest scoring that attains the      *)
(* greatest fitness scored so far: a later state of equal fitness does not *)
(* replace it.                                                             *)
(***************************************************************************)
\* The first scoring whose value is the greatest scored so far.
FirstBest(s) ==
    CHOOSE k \in 1..Len(s) :
        /\ \A i \in 1..Len(s) : s[i].value <= s[k].value
        /\ \A i \in 1..(k - 1) : s[i].value < s[k].value

\* The entries of the tracker come from the scorings, one scoring each, so
\* the order of insertion is the order of those scorings.
C18_TrackerShape ==
    /\ Range(best_of_all_time) \subseteq Range(scored)
    /\ \A i, j \in 1..Len(best_of_all_time) :
          i # j => best_of_all_time[i].value # best_of_all_time[j].value
    /\ \A i, j \in 1..Len(scored) :
          (/\ i < j
           /\ scored[i] \in Range(best_of_all_time)
           /\ scored[j] \in Range(best_of_all_time))
              => scored[i].value < scored[j].value
    /\ scored # <<>> =>
          Peek(best_of_all_time) = scored[FirstBest(scored)]

\* Two states scored with the same, greatest fitness: the tracker has the
\* first of them only.
C18_Witness ==
    /\ Len(scored) = 3
    /\ scored[1].value < scored[2].value
    /\ scored[3].value = scored[2].value
    /\ Peek(best_of_all_time) = scored[2]
    /\ Len(best_of_all_time) = 2

(***************************************************************************)
(* C19 -- Independence from neighbor order.  The run of pathfind on a      *)
(* graph g, replayed as a function: Fit is the score of this run, open,    *)
(* seen and the tracker are handled as Start, Pop, Return, Expand and      *)
(* Visit handle them.  With pairwise distinct fitness values the replay    *)
(* has no choice to make.                                                  *)
(***************************************************************************)
\* The fitness this run's fitness_estimate returned for s.
Fit(s) ==
    IF \E e \in Range(scored) : e.item = s
    THEN (CHOOSE e \in Range(scored) : e.item = s).value
    ELSE 0

\* Lines 208-211 for one neighbor n, on the replay's state st.
ReplayVisit(st, n) ==
    IF n \in st.seen
    THEN st
    ELSE [st EXCEPT
            !.seen = @ \cup {n},
            !.open = HeapPush(@, HeapEntry(Fit(n), n)),
            !.best = fitness_estimate(@, Peek(@), Fit(n), n)]

RECURSIVE ReplayFor(_, _)
ReplayFor(st, list) ==
    IF list = <<>> THEN st
    ELSE ReplayFor(ReplayVisit(st, Head(list)), Tail(list))

\* Lines 198-213 until the return or the empty frontier.
RECURSIVE ReplayLoop(_, _)
ReplayLoop(g, st) ==
    IF st.open = <<>>
    THEN [st EXCEPT !.pc = "panicked"]
    ELSE LET cur == HeapPop(st.open).entry
             st1 == [st EXCEPT !.open = HeapPop(@).heap,
                               !.reports = Append(@, cur)]
         IN IF is_goal(goals, cur.item, cur.value)
            THEN [st1 EXCEPT !.pc = "returned"]
            ELSE ReplayLoop(g, ReplayFor(st1, neighbors(g, cur.item)))

\* pathfind on graph g from start, on an engine whose tracker is empty.
Replay(g, start) ==
    ReplayLoop(g, ReplayVisit([pc |-> "loop", open |-> <<>>, seen |-> {},
                               best |-> <<>>, reports |-> <<>>], start))

\* The lists that permute list, and the graphs that permute the lists of g.
PermsOf(list) ==
    {[i \in 1..Len(list) |-> list[p[i]]] :
        p \in {q \in [1..Len(list) -> 1..Len(list)] :
                  \A i, j \in 1..Len(list) : q[i] = q[j] => i = j}}

PermutedGraphs(g) ==
    {g2 \in [States -> UNION {PermsOf(g[s]) : s \in States}] :
        \A s \in States : g2[s] \in PermsOf(g[s])}

DistinctFitness ==
    \A i, j \in 1..Len(scored) :
        scored[i].value = scored[j].value => i = j

(***************************************************************************)
(* C19 -- for a fixed start state and pairwise distinct fitness values, a  *)
(* run that has ended has the reports, the set of scored states, the       *)
(* outcome and the final peek of the tracker that the run on every graph   *)
(* with permuted neighbor lists has.                                       *)
(***************************************************************************)
C19_NeighborOrder ==
    (pc \in {"returned", "panicked"} /\ DistinctFitness) =>
        \A g2 \in PermutedGraphs(nbrs) :
            LET r == Replay(g2, StartOf) IN
                /\ r.reports = reported
                /\ r.seen = Range(Items(scored))
                /\ r.pc = pc
                /\ Peek(r.best) = Peek(best_of_all_time)

\* A run has ended whose start state lists two new neighbors, the better
\* one last; with that list turned round the tracker ends with one entry
\* less, and the reports and the peek are the same.
C19_Witness ==
    /\ pc = "panicked"
    /\ DistinctFitness
    /\ Len(nbrs[StartOf]) = 2
    /\ Len(scored) = 3
    /\ Fit(StartOf) < Fit(nbrs[StartOf][1])
    /\ Fit(nbrs[StartOf][1]) < Fit(nbrs[StartOf][2])
    /\ Len(best_of_all_time) = 3
    /\ \E g2 \in PermutedGraphs(nbrs) :
          /\ g2 # nbrs
          /\ Len(Replay(g2, StartOf).best) = 2
          /\ Replay(g2, StartOf).reports = reported

(***************************************************************************)
(* Castle: the concrete Solution of CastleSearcher.  inner holds NCuts cut *)
(* points as u8; troops() reads them as the boundaries of NCuts + 1        *)
(* groups of troops.  u8 arithmetic is kept modulo 256.                    *)
(***************************************************************************)
U8(x) == x % 256

\* [u8]::sort, as an insertion sort.
InsertSorted(s, x) ==
    LET k == Cardinality({i \in 1..Len(s) : s[i] <= x})
    IN SubSeq(s, 1, k) \o <<x>> \o SubSeq(s, k + 1, Len(s))

RECURSIVE SortSeq(_)
SortSeq(s) ==
    IF s = <<>> THEN <<>> ELSE InsertSorted(SortSeq(Tail(s)), Head(s))

\* Castle::from_random: every cut point from gen_range(0, 100), which
\* leaves out the upper end, then inner.sort().
FromRandom == {SortSeq(f) : f \in [1..NCuts -> 0..(Total - 1)]}

\* Mutant of InRange: the test against the upper end is left out.
InRange_NoUpper(v) == ~(v < 0)

\* Line 150, negated: the changed cut point is kept.
InRange(v) == ~(v < 0 \/ v > Total)

\* Castle::neighbors, lines 146-161, from the k-th pass of the two loops
\* on: pass k changes cut point (k + 1) \div 2 by -1 (k odd) or +1.
RECURSIVE CastleNeighborsFrom(_, _)
CastleNeighborsFrom(c, k) ==
    IF k > 2 * NCuts THEN <<>>
    ELSE LET update_index == (k + 1) \div 2
             d == IF k % 2 = 1 THEN -1 ELSE 1
             current_value == c[update_index] + d
             new == SortSeq([c EXCEPT ![update_index] = U8(current_value)])
         IN IF InRange(current_value)
            THEN <<new>> \o CastleNeighborsFrom(c, k + 1)
            ELSE CastleNeighborsFrom(c, k + 1)

CastleNeighbors(c) == CastleNeighborsFrom(c, 1)

\* Castle::troops: the value each u8 subtraction wraps to, and whether one
\* of them underflows (a panic in a build with overflow checks).
Troops(c) ==
    [i \in 1..(NCuts + 1) |->
        IF i = 1 THEN c[1]
        ELSE IF i <= NCuts THEN U8(c[i] - c[i - 1])
        ELSE U8(Total - c[NCuts])]

TroopsUnderflow(c) ==
    \/ \E i \in 2..NCuts : c[i] < c[i - 1]
    \/ Total < c[NCuts]

RECURSIVE SumSeq(_)
SumSeq(s) == IF s = <<>> THEN 0 ELSE Head(s) + SumSeq(Tail(s))

\* The Castles alone: one from from_random, then neighbors of neighbors.
InitCastle ==
    /\ castle \in FromRandom
    /\ nbrs = [s \in States |-> <<>>]
    /\ goals = {}
    /\ pc = "start"
    /\ open = <<>>
    /\ seen = {}
    /\ best_of_all_time = <<>>
    /\ current = None
    /\ todo = <<>>
    /\ result = "none"
    /\ scored = <<>>
    /\ reported = <<>>
    /\ pushed = <<>>
    /\ expanded = <<>>

\* One step from a Castle to one of its neighbors().
CastleStep ==
    /\ \E i \in 1..Len(CastleNeighbors(castle)) :
          castle' = CastleNeighbors(castle)[i]
    /\ UNCHANGED <<nbrs, goals, pc, open, seen, best_of_all_time, current,
                   todo, result, history>>

NextCastle == CastleStep

SpecCastle == InitCastle /\ [][NextCastle]_vars

(***************************************************************************)
(* C20 -- Castle invariant: every Castle from from_random, and every       *)
(* Castle reached from it by neighbors steps, has its cut points in        *)
(* non-decreasing order, each within 0..Total (0..=100).  So no u8         *)
(* subtraction of troops() underflows, and troops() yields NCuts + 1       *)
(* counts, none negative, that sum to Total.                               *)
(***************************************************************************)
C20_CastleSorted ==
    /\ Len(castle) = NCuts
    /\ \A i \in 1..NCuts : castle[i] \in 0..Total
    /\ \A i \in 1..(NCuts - 1) : castle[i] <= castle[i + 1]
    /\ ~TroopsUnderflow(castle)
    /\ Len(Troops(castle)) = NCuts + 1
    /\ \A i \in 1..(NCuts + 1) : Troops(castle)[i] \in 0..Total
    /\ SumSeq(Troops(castle)) = Total

\* A Castle only neighbors steps reach (from_random never draws the upper
\* end), with two equal cut points, so a group of troops that is empty.
C20_Witness ==
    /\ castle[NCuts] = Total
    /\ castle[1] = castle[2]
    /\ castle[1] > 0
    /\ Troops(castle)[2] = 0
    /\ Troops(castle)[NCuts + 1] = 0

============================================================================
